---- MODULE Spec2Model ----
(***************************************************************************)
(* A model of atomic_ratio_parser.py: the scan of a text for its first     *)
(* chemical formula and the string-splicing expansion of parenthesised     *)
(* groups.  A Python str is a sequence of one-character strings, a dict a  *)
(* function on a finite set of symbols, a Decimal a record of its          *)
(* coefficient and exponent (every Decimal of the program is unsigned).    *)
(***************************************************************************)
EXTENDS Integers, Sequences, FiniteSets, TLC

----------------------------------------------------------------------------
(* Bounds of the model. *)

\* the longest text handed to parse_atomic_ratio, in characters
MaxLen == 5

\* the longest single-token text, in characters
MaxTokenLen == 5

----------------------------------------------------------------------------
(* Python str primitives used by the module. *)

\* s[a:b] for 0 <= a, b (indices counted from 0 as in Python)
Slice(s, a, b) == SubSeq(s, a + 1, IF b > Len(s) THEN Len(s) ELSE b)

\* s[a:]
SliceFrom(s, a) == SubSeq(s, a + 1, Len(s))

\* str.find(ch): the lowest index of ch, or -1
Find(s, ch) ==
  IF \E i \in 1..Len(s) : s[i] = ch
  THEN (CHOOSE i \in 1..Len(s) : s[i] = ch /\ \A j \in 1..(i - 1) : s[j] # ch) - 1
  ELSE -1

\* the slice bounds Python computes from a possibly negative index
SliceIndex(s, k) ==
  IF k < 0 THEN (IF k + Len(s) < 0 THEN 0 ELSE k + Len(s))
  ELSE (IF k > Len(s) THEN Len(s) ELSE k)

\* str.rfind(ch, start, end): the highest index of ch in s[start:end], or -1
RFind(s, ch, start, end) ==
  LET lo == SliceIndex(s, start)
      hi == SliceIndex(s, end)
      hits == {i \in lo..(hi - 1) : s[i + 1] = ch}
  IN  IF hits = {} THEN -1 ELSE CHOOSE i \in hits : \A j \in hits : j <= i

\* str.replace(ch, ''): every occurrence of ch removed
Remove(s, ch) == LET Keep(c) == c # ch IN SelectSeq(s, Keep)

\* str.replace(old, new) for one-character old and new
Replace(s, old, new) == [i \in DOMAIN s |-> IF s[i] = old THEN new ELSE s[i]]

Whitespace == {" ", "\t", "\n"}

\* str.split(): the maximal runs of non-whitespace characters, in order
RECURSIVE SplitFrom(_, _, _)
SplitFrom(s, i, cur) ==
  IF i > Len(s) THEN (IF cur = <<>> THEN <<>> ELSE <<cur>>)
  ELSE IF s[i] \in Whitespace
       THEN (IF cur = <<>> THEN <<>> ELSE <<cur>>) \o SplitFrom(s, i + 1, <<>>)
       ELSE SplitFrom(s, i + 1, Append(cur, s[i]))

Split(s) == SplitFrom(s, 1, <<>>)

UpperCase ==
  <<"A","B","C","D","E","F","G","H","I","J","K","L","M",
    "N","O","P","Q","R","S","T","U","V","W","X","Y","Z">>

LowerCase ==
  <<"a","b","c","d","e","f","g","h","i","j","k","l","m",
    "n","o","p","q","r","s","t","u","v","w","x","y","z">>

\* the code point of a letter
Ord(c) ==
  IF \E i \in DOMAIN UpperCase : UpperCase[i] = c
  THEN 64 + (CHOOSE i \in DOMAIN UpperCase : UpperCase[i] = c)
  ELSE 96 + (CHOOSE i \in DOMAIN LowerCase : LowerCase[i] = c)

\* a > b in Python's order of strings
StrGreater(a, b) ==
  \E i \in 1..Len(a) :
     /\ \A j \in 1..(i - 1) : j <= Len(b) /\ a[j] = b[j]
     /\ \/ i > Len(b)
        \/ i <= Len(b) /\ Ord(a[i]) > Ord(b[i])

IsPrefix(p, s) == Len(p) <= Len(s) /\ SubSeq(s, 1, Len(p)) = p

DigitChars == <<"0","1","2","3","4","5","6","7","8","9">>

IsDigit(c) == \E i \in DOMAIN DigitChars : DigitChars[i] = c

DigitVal(c) == (CHOOSE i \in DOMAIN DigitChars : DigitChars[i] = c) - 1

\* int(s) for a string of digits
RECURSIVE StrToNat(_)
StrToNat(s) ==
  IF s = <<>> THEN 0
  ELSE 10 * StrToNat(SubSeq(s, 1, Len(s) - 1)) + DigitVal(s[Len(s)])

\* str(n) for n >= 0
RECURSIVE NatToStr(_)
NatToStr(n) ==
  IF n < 10 THEN <<DigitChars[n + 1]>>
  ELSE Append(NatToStr(n \div 10), DigitChars[(n % 10) + 1])

RECURSIVE Pow10(_)
Pow10(k) == IF k = 0 THEN 1 ELSE 10 * Pow10(k - 1)

Zeros(n) == [i \in 1..n |-> "0"]

----------------------------------------------------------------------------
(* decimal.Decimal, for the unsigned finite values the module builds. The   *)
(* default context keeps 28 significant digits; the texts of the model are  *)
(* too short for a coefficient to reach that, so no rounding is modelled.   *)

\* the value None, and the result of a pattern that does not match
None == <<"None">>

\* Decimal(lit) for lit a match of POSITIVE_FLOAT_PATTERN
Decimal(lit) ==
  LET dot == Find(lit, ".")
      intpart == IF dot < 0 THEN lit ELSE Slice(lit, 0, dot)
      fracpart == IF dot < 0 THEN <<>> ELSE SliceFrom(lit, dot + 1)
  IN  [int |-> StrToNat(intpart \o fracpart), exp |-> 0 - Len(fracpart)]

Min(a, b) == IF a < b THEN a ELSE b

\* Decimal.__add__
DecAdd(x, y) ==
  LET e == Min(x.exp, y.exp)
  IN  [int |-> x.int * Pow10(x.exp - e) + y.int * Pow10(y.exp - e), exp |-> e]

\* Decimal.__mul__
DecMul(x, y) == [int |-> x.int * y.int, exp |-> x.exp + y.exp]

\* Decimal.__bool__
DecBool(x) == x.int # 0

\* Decimal.__str__: plain notation, or scientific notation when the exponent
\* is positive or the value has more than six leading fractional zeros
DecStr(x) ==
  LET digits == NatToStr(x.int)
      leftdigits == x.exp + Len(digits)
      dotplace == IF x.exp <= 0 /\ leftdigits > -6 THEN leftdigits ELSE 1
      intpart == IF dotplace <= 0 THEN <<"0">>
                 ELSE IF dotplace >= Len(digits)
                      THEN digits \o Zeros(dotplace - Len(digits))
                      ELSE SubSeq(digits, 1, dotplace)
      fracpart == IF dotplace <= 0 THEN <<".">> \o Zeros(0 - dotplace) \o digits
                  ELSE IF dotplace >= Len(digits) THEN <<>>
                       ELSE <<".">> \o SubSeq(digits, dotplace + 1, Len(digits))
      e == leftdigits - dotplace
      exppart == IF e = 0 THEN <<>>
                 ELSE IF e > 0 THEN <<"E", "+">> \o NatToStr(e)
                      ELSE <<"E", "-">> \o NatToStr(0 - e)
  IN  intpart \o fracpart \o exppart

----------------------------------------------------------------------------
(* The symbol table and the two compiled patterns. *)

CHEMICAL_SYMBOLS ==
  <<
    <<"H">>, <<"H","e">>, <<"L","i">>, <<"B","e">>, <<"B">>, <<"C">>,
    <<"N">>, <<"O">>, <<"F">>, <<"N","e">>, <<"N","a">>, <<"M","g">>,
    <<"A","l">>, <<"S","i">>, <<"P">>, <<"S">>, <<"C","l">>, <<"A","r">>,
    <<"K">>, <<"C","a">>, <<"S","c">>, <<"T","i">>, <<"V">>, <<"C","r">>,
    <<"M","n">>, <<"F","e">>, <<"C","o">>, <<"N","i">>, <<"C","u">>, <<"Z","n">>,
    <<"G","a">>, <<"G","e">>, <<"A","s">>, <<"S","e">>, <<"B","r">>, <<"K","r">>,
    <<"R","b">>, <<"S","r">>, <<"Y">>, <<"Z","r">>, <<"N","b">>, <<"M","o">>,
    <<"T","c">>, <<"R","u">>, <<"R","h">>, <<"P","d">>, <<"A","g">>, <<"C","d">>,
    <<"I","n">>, <<"S","n">>, <<"S","b">>, <<"T","e">>, <<"I">>, <<"X","e">>,
    <<"C","s">>, <<"B","a">>, <<"L","a">>, <<"C","e">>, <<"P","r">>, <<"N","d">>,
    <<"P","m">>, <<"S","m">>, <<"E","u">>, <<"G","d">>, <<"T","b">>, <<"D","y">>,
    <<"H","o">>, <<"E","r">>, <<"T","m">>, <<"Y","b">>, <<"L","u">>, <<"H","f">>,
    <<"T","a">>, <<"W">>, <<"R","e">>, <<"O","s">>, <<"I","r">>, <<"P","t">>,
    <<"A","u">>, <<"H","g">>, <<"T","l">>, <<"P","b">>, <<"B","i">>, <<"P","o">>,
    <<"A","t">>, <<"R","n">>, <<"F","r">>, <<"R","a">>, <<"A","c">>, <<"T","h">>,
    <<"P","a">>, <<"U">>, <<"N","p">>, <<"P","u">>, <<"A","m">>, <<"C","m">>,
    <<"B","k">>, <<"C","f">>, <<"E","s">>, <<"F","m">>, <<"M","d">>, <<"N","o">>,
    <<"L","r">>, <<"R","f">>, <<"D","b">>, <<"S","g">>, <<"B","h">>, <<"H","s">>,
    <<"M","t">>, <<"D","s">>, <<"R","g">>, <<"C","n">>, <<"N","h">>, <<"F","l">>,
    <<"M","c">>, <<"L","v">>, <<"T","s">>, <<"O","g">>
  >>

SymbolSet == {CHEMICAL_SYMBOLS[i] : i \in DOMAIN CHEMICAL_SYMBOLS}

\* the match of the alternation of the symbols sorted without reverse=True:
\* the least matching symbol in the order of strings
prog_chemical_symbol_match_ascending(s) ==
  LET cand == {c \in SymbolSet : IsPrefix(c, s)}
  IN  IF cand = {} THEN None
      ELSE CHOOSE c \in cand : \A d \in cand \ {c} : StrGreater(d, c)

\* _prog_chemical_symbol.match(s).group(), or None. The pattern is the
\* alternation of the symbols sorted in reverse order; a regex alternation
\* takes the first alternative that matches, that is the greatest matching
\* symbol in the order of strings.
prog_chemical_symbol_match(s) ==
  LET cand == {c \in SymbolSet : IsPrefix(c, s)}
  IN  IF cand = {} THEN None
      ELSE CHOOSE c \in cand : \A d \in cand \ {c} : StrGreater(c, d)

\* the length of the run of digits of s that starts at index i (from 1)
RECURSIVE DigitRun(_, _)
DigitRun(s, i) ==
  IF i <= Len(s) /\ IsDigit(s[i]) THEN 1 + DigitRun(s, i + 1) ELSE 0

\* _prog_positive_float.match(s).group(), or None: [0-9]+(\.[0-9]+)?
prog_positive_float_match(s) ==
  LET n == DigitRun(s, 1)
      f == IF n + 1 <= Len(s) /\ s[n + 1] = "." THEN DigitRun(s, n + 2) ELSE 0
  IN  IF n = 0 THEN None
      ELSE IF f > 0 THEN SubSeq(s, 1, n + 1 + f) ELSE SubSeq(s, 1, n)

----------------------------------------------------------------------------
(* dict *)

EmptyDict == [k \in {} |-> [int |-> 0, exp |-> 0]]

DictGet(d, k, default) == IF k \in DOMAIN d THEN d[k] ELSE default

DictSet(d, k, v) == [x \in (DOMAIN d) \cup {k} |-> IF x = k THEN v ELSE d[x]]

\* the outcome of a call: a returned value or a raised exception
Returned(v) == [exc |-> "none", value |-> v]

Raised(e) == [exc |-> e, value |-> None]

----------------------------------------------------------------------------
(* _parse_atomic_ratio_from_expanded_chemical_formula *)

\* the while loop: the unconsumed formula and the result when it ends
RECURSIVE ParseLoop(_, _)
ParseLoop(formula, result) ==
  IF Len(formula) = 0 THEN [formula |-> formula, result |-> result]
  ELSE
    LET chemical_symbol == prog_chemical_symbol_match(formula)
    IN  IF chemical_symbol = None THEN [formula |-> formula, result |-> result]
        ELSE
          LET rest == SliceFrom(formula, Len(chemical_symbol))
              atomic_ratio_str == prog_positive_float_match(rest)
              atomic_ratio == IF atomic_ratio_str = None
                              THEN Decimal(<<"1">>)
                              ELSE Decimal(atomic_ratio_str)
              after == IF atomic_ratio_str = None THEN rest
                       ELSE SliceFrom(rest, Len(atomic_ratio_str))
          IN  ParseLoop(after,
                        DictSet(result, chemical_symbol,
                                DecAdd(DictGet(result, chemical_symbol,
                                               Decimal(<<"0">>)),
                                       atomic_ratio)))

\* the parser without the check of lines 177-178 for unconsumed text
parse_without_leftover_check(expanded_chemical_formula) ==
  Returned(ParseLoop(expanded_chemical_formula, EmptyDict).result)

parse_atomic_ratio_from_expanded_chemical_formula(expanded_chemical_formula) ==
  LET end == ParseLoop(expanded_chemical_formula, EmptyDict)
  IN  IF Len(end.formula) > 0 THEN Raised("ValueError")
      ELSE Returned(end.result)

----------------------------------------------------------------------------
(* _convert_ratio_dict_to_str *)

\* the for loop from table index i on: the symbols whose ratio is absent
\* (ratio_dict.get gives None) or zero are falsy and add nothing, so the loop
\* goes on at the next index that adds to result
RECURSIVE ConvertLoop(_, _, _)
ConvertLoop(ratio_dict, i, result) ==
  LET emitting == {j \in i..Len(CHEMICAL_SYMBOLS) :
                     /\ CHEMICAL_SYMBOLS[j] \in DOMAIN ratio_dict
                     /\ DecBool(ratio_dict[CHEMICAL_SYMBOLS[j]])}
  IN  IF emitting = {} THEN result
      ELSE
        LET j == CHOOSE m \in emitting : \A n \in emitting : m <= n
            chemical_symbol == CHEMICAL_SYMBOLS[j]
            atomic_ratio == ratio_dict[chemical_symbol]
        IN  ConvertLoop(ratio_dict, j + 1,
                        result \o chemical_symbol \o DecStr(atomic_ratio))

convert_ratio_dict_to_str(ratio_dict) == ConvertLoop(ratio_dict, 1, <<>>)

----------------------------------------------------------------------------
(* _expand_innermost_atomic_ratio *)

\* line 117-118: every value of the dict multiplied by the group's ratio
ScaleDict(ratio_dict, parentheses_ratio) ==
  [k \in DOMAIN ratio_dict |-> DecMul(ratio_dict[k], parentheses_ratio)]

\* the text kept before the group with the slice ending one index too far:
\* chemical_formula[:left_parenthesis_idx+1]
TextBeforeGroupOffByOne(chemical_formula, left_parenthesis_idx) ==
  Slice(chemical_formula, 0, left_parenthesis_idx + 1)

\* line 122: chemical_formula[:left_parenthesis_idx]
TextBeforeGroup(chemical_formula, left_parenthesis_idx) ==
  Slice(chemical_formula, 0, left_parenthesis_idx)

\* line 123: chemical_formula[right_parenthesis_idx+len(ratio_match.group())+1:]
TextAfterGroup(chemical_formula, right_parenthesis_idx, ratio_match) ==
  SliceFrom(chemical_formula, right_parenthesis_idx + Len(ratio_match) + 1)

expand_innermost_atomic_ratio(chemical_formula) ==
  LET right_parenthesis_idx == Find(chemical_formula, ")")
      left_parenthesis_idx ==
        RFind(chemical_formula, "(", 0, right_parenthesis_idx)
  IN
  IF right_parenthesis_idx < 0
  THEN IF left_parenthesis_idx < 0
       THEN Returned(chemical_formula)
       ELSE Raised("ValueError")
  ELSE IF left_parenthesis_idx < 0 THEN Raised("ValueError")
  ELSE
    LET ratio_match ==
          prog_positive_float_match(
            SliceFrom(chemical_formula, right_parenthesis_idx + 1))
        parentheses_ratio ==
          IF ratio_match = None THEN Decimal(<<"1">>) ELSE Decimal(ratio_match)
        parsed ==
          parse_atomic_ratio_from_expanded_chemical_formula(
            Slice(chemical_formula, left_parenthesis_idx + 1,
                  right_parenthesis_idx))
    IN
    IF parsed.exc # "none" THEN Raised(parsed.exc)
    ELSE
      LET ratio_dict == ScaleDict(parsed.value, parentheses_ratio)
          expanded_str == convert_ratio_dict_to_str(ratio_dict)
      IN  \* line 123 reads ratio_match.group(): None has no such attribute
          IF ratio_match = None THEN Raised("AttributeError")
          ELSE Returned(TextBeforeGroup(chemical_formula, left_parenthesis_idx)
                        \o expanded_str
                        \o TextAfterGroup(chemical_formula,
                                          right_parenthesis_idx, ratio_match))

----------------------------------------------------------------------------
(* The state of one call of parse_atomic_ratio(string).                     *)

VARIABLES
  string,        \* the argument of parse_atomic_ratio
  tokens,        \* the tokens of string.split() the for loop has not taken yet
  token,         \* the token of the current iteration of the for loop
  formula,       \* _get_expanded_chemical_formula: formula
  prev_formula,  \* _get_expanded_chemical_formula: prev_formula
  napply,        \* calls of _expand_innermost_atomic_ratio made for this token
  result,        \* parse_atomic_ratio: result
  exc,           \* the exception raised by the last call made for this token
  ratio_dict,    \* the mapping handed to _convert_ratio_dict_to_str on its own
  pc             \* the position of the call

vars ==
  <<string, tokens, token, formula, prev_formula, napply, result, exc,
    ratio_dict, pc>>

\* the characters the texts of the model are made of
TextAlphabet == {"H", "(", ")", "2", " ", ",", "_", "{", "}"}

\* the characters the single-token texts of the model are made of
TokenAlphabet == {"H", "C", "o", "(", ")", "2", "0", "."}

StringsOver(alphabet, n) == UNION {[1..k -> alphabet] : k \in 0..n}

InitWith(texts) ==
  /\ string \in texts
  /\ tokens = <<>>
  /\ token = None
  /\ formula = None
  /\ prev_formula = None
  /\ napply = 0
  /\ result = EmptyDict
  /\ exc = "none"
  /\ ratio_dict = EmptyDict
  /\ pc = "replace"

Init == InitWith(StringsOver(TextAlphabet, MaxLen))

InitToken == InitWith(StringsOver(TokenAlphabet, MaxTokenLen))

\* lines 50-53: the text with '_', '{', '}' removed and ',' made a space
Normalize(s) == Replace(Remove(Remove(Remove(s, "_"), "{"), "}"), ",", " ")

\* lines 50-56: normalise the text and split it into tokens
Preprocess ==
  /\ pc = "replace"
  /\ tokens' = Split(Normalize(string))
  /\ pc' = "for"
  /\ UNCHANGED <<string, token, formula, prev_formula, napply, result, exc,
                 ratio_dict>>

\* line 56, lines 79-80: the for loop takes the next token and the driver
\* starts on it
ForToken ==
  /\ pc = "for"
  /\ tokens # <<>>
  /\ token' = Head(tokens)
  /\ tokens' = Tail(tokens)
  /\ formula' = Head(tokens)
  /\ prev_formula' = None
  /\ napply' = 0
  /\ exc' = "none"
  /\ pc' = "while"
  /\ UNCHANGED <<string, result, ratio_dict>>

\* lines 56, 64: no token is left, the function returns result
ForExhausted ==
  /\ pc = "for"
  /\ tokens = <<>>
  /\ pc' = "return"
  /\ UNCHANGED <<string, tokens, token, formula, prev_formula, napply, result,
                 exc, ratio_dict>>

\* lines 82-84: one iteration of the driver's loop. A ValueError is caught at
\* line 61 and the for loop continues; any other exception leaves
\* parse_atomic_ratio.
WhileExpand ==
  /\ pc = "while"
  /\ formula # prev_formula
  /\ LET out == expand_innermost_atomic_ratio(formula)
     IN  /\ prev_formula' = formula
         /\ napply' = napply + 1
         /\ exc' = out.exc
         /\ formula' = IF out.exc = "none" THEN out.value ELSE formula
         /\ pc' = CASE out.exc = "none" -> "while"
                    [] out.exc = "ValueError" -> "for"
                    [] OTHER -> "raise"
  /\ UNCHANGED <<string, tokens, token, result, ratio_dict>>

\* lines 82, 86: the fixed point is reached, the driver returns formula
WhileExit ==
  /\ pc = "while"
  /\ formula = prev_formula
  /\ pc' = "parse"
  /\ UNCHANGED <<string, tokens, token, formula, prev_formula, napply, result,
                 exc, ratio_dict>>

\* lines 60-64: the expanded formula is parsed; on success the loop breaks
\* and the function returns, on ValueError the for loop continues
ParseExpanded ==
  /\ pc = "parse"
  /\ LET out == parse_atomic_ratio_from_expanded_chemical_formula(formula)
     IN  /\ exc' = out.exc
         /\ result' = IF out.exc = "none" THEN out.value ELSE result
         /\ pc' = IF out.exc = "none" THEN "return" ELSE "for"
  /\ UNCHANGED <<string, tokens, token, formula, prev_formula, napply, ratio_dict>>

Next ==
  \/ Preprocess
  \/ ForToken
  \/ ForExhausted
  \/ WhileExpand
  \/ WhileExit
  \/ ParseExpanded

Spec == Init /\ [][Next]_vars

SpecToken == InitToken /\ [][Next]_vars

----------------------------------------------------------------------------
(* The serializer and the flat parser on their own: a mapping is converted  *)
(* to a string and the string is parsed back.                               *)

RoundTripSymbols == {<<"H">>, <<"C">>, <<"C", "o">>}

RoundTripLiterals ==
  { <<"1">>, <<"2">>, <<"0", ".", "5">>, <<"0", ".", "0", "0", "1">>,
    <<"0", ".", "0", "0", "0", "1">> }

\* the ratios line 118 can leave in a dict: a parsed quantity multiplied by
\* a parsed multiplier
RoundTripRatios ==
  {DecMul(Decimal(q), Decimal(m)) : q \in RoundTripLiterals,
                                    m \in RoundTripLiterals}

InitRoundTrip ==
  /\ ratio_dict \in UNION {[keys -> RoundTripRatios] :
                             keys \in SUBSET RoundTripSymbols}
  /\ string = <<>>
  /\ tokens = <<>>
  /\ token = None
  /\ formula = None
  /\ prev_formula = None
  /\ napply = 0
  /\ result = EmptyDict
  /\ exc = "none"
  /\ pc = "convert"

\* _convert_ratio_dict_to_str(ratio_dict)
ConvertRatioDict ==
  /\ pc = "convert"
  /\ formula' = convert_ratio_dict_to_str(ratio_dict)
  /\ pc' = "reparse"
  /\ UNCHANGED <<string, tokens, token, prev_formula, napply, result, exc,
                 ratio_dict>>

\* _parse_atomic_ratio_from_expanded_chemical_formula of the string made
ReparseConverted ==
  /\ pc = "reparse"
  /\ LET out == parse_atomic_ratio_from_expanded_chemical_formula(formula)
     IN  /\ exc' = out.exc
         /\ result' = IF out.exc = "none" THEN out.value ELSE result
  /\ pc' = "done"
  /\ UNCHANGED <<string, tokens, token, formula, prev_formula, napply,
                 ratio_dict>>

NextRoundTrip ==
  \/ ConvertRatioDict
  \/ ReparseConverted

SpecRoundTrip == InitRoundTrip /\ [][NextRoundTrip]_vars

----------------------------------------------------------------------------
(* The functions between the scanner and the expander, as whole calls.      *)

\* _get_expanded_chemical_formula: the while loop run to its end
RECURSIVE DriverLoop(_, _)
DriverLoop(f, prev) ==
  IF f = prev THEN Returned(f)
  ELSE LET out == expand_innermost_atomic_ratio(f)
       IN  IF out.exc # "none" THEN out ELSE DriverLoop(out.value, f)

get_expanded_chemical_formula(chemical_formula) ==
  DriverLoop(chemical_formula, None)

\* lines 59-60: the body of the try block for one token
TryToken(t) ==
  LET expanded_formula == get_expanded_chemical_formula(t)
  IN  IF expanded_formula.exc # "none" THEN expanded_formula
      ELSE parse_atomic_ratio_from_expanded_chemical_formula(
             expanded_formula.value)

----------------------------------------------------------------------------
(* Vocabulary of the properties. *)

Count(s, ch) == Cardinality({i \in 1..Len(s) : s[i] = ch})

NoParens(s) == Count(s, "(") = 0 /\ Count(s, ")") = 0

\* the numbers of '(' and ')' differ, or a prefix has more ')' than '('
Unbalanced(s) ==
  \/ Count(s, "(") # Count(s, ")")
  \/ \E n \in 1..Len(s) :
        Count(SubSeq(s, 1, n), ")") > Count(SubSeq(s, 1, n), "(")

\* the call has ended for the current token with the token's mapping
Accepted == pc = "return" /\ token # None /\ exc = "none"

\* the try block of the current token has ended
TokenDone ==
  /\ token # None
  /\ \/ pc = "raise"
     \/ pc \in {"for", "return"} /\ napply >= 1

\* the Flat Formula Parser has been applied to formula, a string without
\* parentheses, at line 60: exc and result hold its outcome
FlatParsed ==
  /\ pc \in {"for", "return"}
  /\ napply >= 1
  /\ formula = prev_formula
  /\ NoParens(formula)

\* numeric equality of two Decimals
DecEq(x, y) ==
  LET e == Min(x.exp, y.exp)
  IN  x.int * Pow10(x.exp - e) = y.int * Pow10(y.exp - e)

\* two mappings agree, an absent key counting as zero
DictEq(a, b) ==
  \A k \in (DOMAIN a) \cup (DOMAIN b) :
     DecEq(DictGet(a, k, [int |-> 0, exp |-> 0]),
           DictGet(b, k, [int |-> 0, exp |-> 0]))

----------------------------------------------------------------------------
(* A direct reading of a flat formula: a concatenation of pairs             *)
(* (symbol, optional unsigned decimal literal).                             *)

\* w is an unsigned decimal literal: digits, or digits '.' digits
IsLiteral(w) ==
  /\ w # <<>>
  /\ \A i \in 1..Len(w) : IsDigit(w[i]) \/ w[i] = "."
  /\ Count(w, ".") <= 1
  /\ IsDigit(w[1])
  /\ IsDigit(w[Len(w)])

\* the longest table symbol that stands at position p of s, or None
LongestSymbolAt(s, p) ==
  LET here == {c \in SymbolSet : IsPrefix(c, SubSeq(s, p, Len(s)))}
  IN  IF here = {} THEN None
      ELSE CHOOSE c \in here : \A d \in here : Len(d) <= Len(c)

\* the position after the pair that starts at p, given the set of starts
PairEnd(s, starts, p) ==
  LET later == {q \in starts : q > p}
  IN  IF later = {} THEN Len(s)
      ELSE (CHOOSE q \in later : \A r \in later : q <= r) - 1

\* the literal of the pair that starts at p (empty when it has none)
PairLiteral(s, starts, p) ==
  SubSeq(s, p + Len(LongestSymbolAt(s, p)), PairEnd(s, starts, p))

\* starts are the positions at which the pairs of s begin
IsPairing(s, starts) ==
  /\ (Len(s) > 0) => (1 \in starts)
  /\ \A p \in starts :
        /\ LongestSymbolAt(s, p) # None
        /\ p + Len(LongestSymbolAt(s, p)) - 1 <= PairEnd(s, starts, p)
        /\ \/ PairLiteral(s, starts, p) = <<>>
           \/ IsLiteral(PairLiteral(s, starts, p))

\* a pair can start only where a table symbol stands
SymbolPositions(s) == {p \in 1..Len(s) : LongestSymbolAt(s, p) # None}

IsPairConcat(s) ==
  \E starts \in SUBSET SymbolPositions(s) : IsPairing(s, starts)

PairingOf(s) ==
  CHOOSE starts \in SUBSET SymbolPositions(s) : IsPairing(s, starts)

\* the digits of a literal as a number, and the count of its fraction digits
LitInt(w) == StrToNat(Remove(w, "."))

LitScale(w) == IF Find(w, ".") < 0 THEN 0 ELSE Len(w) - Find(w, ".") - 1

\* the quantity of the pair at p in units of 10^-scale
PairUnits(s, starts, p, scale) ==
  LET w == PairLiteral(s, starts, p)
  IN  IF w = <<>> THEN Pow10(scale)
      ELSE LitInt(w) * Pow10(scale - LitScale(w))

RECURSIVE SumUnits(_, _, _, _)
SumUnits(s, starts, ps, scale) ==
  IF ps = {} THEN 0
  ELSE LET p == CHOOSE q \in ps : TRUE
       IN  PairUnits(s, starts, p, scale)
             + SumUnits(s, starts, ps \ {p}, scale)

\* the greatest count of fraction digits among the literals of the pairs
PairingScale(s, starts) ==
  LET scales == {LitScale(PairLiteral(s, starts, p)) : p \in starts} \cup {0}
  IN  CHOOSE n \in scales : \A m \in scales : m <= n

\* d is the mapping of the pair concatenation s: its keys are the symbols
\* of the pairs, each sent to the sum of the quantities of its pairs
IsPairMapping(s, d) ==
  LET starts == PairingOf(s)
      scale == PairingScale(s, starts)
  IN  /\ DOMAIN d = {LongestSymbolAt(s, p) : p \in starts}
      /\ \A k \in DOMAIN d :
            /\ scale + d[k].exp >= 0
            /\ d[k].int * Pow10(scale + d[k].exp) =
                 SumUnits(s, starts,
                          {p \in starts : LongestSymbolAt(s, p) = k}, scale)

----------------------------------------------------------------------------
(* A recursive-descent reference for the grammar                            *)
(*   formula ::= item*                                                      *)
(*   item    ::= symbol [quantity] | '(' formula ')' quantity               *)

\* the longest unsigned decimal literal that stands at position p of s
LiteralAt(s, p) ==
  LET lens == {n \in 1..(Len(s) - p + 1) : IsLiteral(SubSeq(s, p, p + n - 1))}
  IN  IF lens = {} THEN None
      ELSE SubSeq(s, p, p + (CHOOSE n \in lens : \A m \in lens : m <= n) - 1)

\* the sum of two mappings
DictSum(a, b) ==
  [k \in (DOMAIN a) \cup (DOMAIN b) |->
     DecAdd(DictGet(a, k, [int |-> 0, exp |-> 0]),
            DictGet(b, k, [int |-> 0, exp |-> 0]))]

RefFail == [ok |-> FALSE, pos |-> 0, dict |-> EmptyDict]

\* item* read from position pos on, added to acc: it ends at a ')' or at the
\* end of s, and fails at anything else that starts no item
RECURSIVE RefFormula(_, _, _)
RefFormula(s, pos, acc) ==
  IF pos > Len(s) \/ s[pos] = ")" THEN [ok |-> TRUE, pos |-> pos, dict |-> acc]
  ELSE IF s[pos] = "("
  THEN LET inner == RefFormula(s, pos + 1, EmptyDict)
       IN  IF ~inner.ok \/ inner.pos > Len(s) THEN RefFail
           ELSE LET q == LiteralAt(s, inner.pos + 1)
                IN  IF q = None THEN RefFail
                    ELSE RefFormula(s, inner.pos + 1 + Len(q),
                                    DictSum(acc, ScaleDict(inner.dict, Decimal(q))))
  ELSE LET sym == LongestSymbolAt(s, pos)
       IN  IF sym = None THEN RefFail
           ELSE LET q == LiteralAt(s, pos + Len(sym))
                IN  IF q = None
                    THEN RefFormula(s, pos + Len(sym),
                                    DictSum(acc, sym :> Decimal(<<"1">>)))
                    ELSE RefFormula(s, pos + Len(sym) + Len(q),
                                    DictSum(acc, sym :> Decimal(q)))

\* the reference applied to a whole token
RefParse(t) ==
  LET r == RefFormula(t, 1, EmptyDict)
  IN  IF r.ok /\ r.pos = Len(t) + 1 THEN r ELSE RefFail

\* every ')' of t is immediately followed by a multiplier literal
MultipliersPresent(t) ==
  \A i \in 1..Len(t) : t[i] = ")" => (i < Len(t) /\ IsDigit(t[i + 1]))

----------------------------------------------------------------------------
(* The expected result of one application of the expander to a string with  *)
(* a well-formed innermost group.                                           *)

\* s has a ')' whose nearest '(' before it encloses a flat formula
HasFlatGroup(s) ==
  /\ s # None
  /\ Find(s, ")") >= 0
  /\ \E i \in 1..Find(s, ")") : s[i] = "("
  /\ LET j == Find(s, ")") + 1
         i == CHOOSE k \in 1..(j - 1) :
                s[k] = "(" /\ \A n \in (k + 1)..(j - 1) : s[n] # "("
     IN  IsPairConcat(SubSeq(s, i + 1, j - 1))

\* text before '(' + serialized scaled group + text after ')' and the literal
ExpectedExpansion(s) ==
  LET j == Find(s, ")") + 1
      i == CHOOSE k \in 1..(j - 1) :
             s[k] = "(" /\ \A n \in (k + 1)..(j - 1) : s[n] # "("
      lit == LiteralAt(s, j + 1)
      m == IF lit = None THEN Decimal(<<"1">>) ELSE Decimal(lit)
      rest == IF lit = None THEN SubSeq(s, j + 1, Len(s))
              ELSE SubSeq(s, j + 1 + Len(lit), Len(s))
      group == parse_atomic_ratio_from_expanded_chemical_formula(
                 SubSeq(s, i + 1, j - 1)).value
  IN  SubSeq(s, 1, i - 1)
        \o convert_ratio_dict_to_str(ScaleDict(group, m))
        \o rest

\* the mapping of the first token of the text for which the try block
\* succeeds, and the tokens that follow it
SucceedingTokens(s) ==
  {i \in DOMAIN Split(Normalize(s)) :
     TryToken(Split(Normalize(s))[i]).exc = "none"}

FirstSucceeding(s) ==
  CHOOSE i \in SucceedingTokens(s) : \A j \in SucceedingTokens(s) : i <= j

----------------------------------------------------------------------------
(* Properties. *)

\* C1: parse_atomic_ratio never lets an error reach its caller: a token that
\* is no formula is skipped, and when every token fails the result is the
\* empty mapping.
C1_NoErrorReachesCaller ==
  /\ pc # "raise"
  /\ (pc = "return" /\ exc # "none") => result = EmptyDict

\* C2: when some token of the normalised, split text succeeds,
\* parse_atomic_ratio returns the mapping of the first such token, and the
\* tokens after it are never taken.
C2_FirstSucceedingToken ==
  (pc \in {"return", "raise"} /\ SucceedingTokens(string) # {}) =>
     /\ pc = "return"
     /\ result = TryToken(Split(Normalize(string))[FirstSucceeding(string)]).value
     /\ tokens = SubSeq(Split(Normalize(string)), FirstSucceeding(string) + 1,
                        Len(Split(Normalize(string))))

\* C3: on a string without parentheses that is a concatenation of (symbol,
\* optional literal) pairs, the symbol of a pair being the longest table
\* symbol at its position, the flat parser returns the mapping of each symbol
\* to the sum of its quantities; on any other string it raises ValueError.
C3_FlatParserReadsPairs ==
  FlatParsed =>
     IF IsPairConcat(formula)
     THEN exc = "none" /\ IsPairMapping(formula, result)
     ELSE exc = "ValueError"

\* a formula with a repeated symbol and a two-letter symbol has been parsed
C3_Witness ==
  /\ FlatParsed
  /\ exc = "none"
  /\ DOMAIN result = {<<"H">>, <<"C", "o">>}
  /\ result[<<"H">>] = [int |-> 2, exp |-> 0]

\* C4: a token with unbalanced parentheses is never accepted.
C4_UnbalancedNeverAccepted == (token # None /\ Unbalanced(token)) => ~Accepted

\* an unbalanced token has been expanded once and then rejected
C4_Witness ==
  /\ token # None
  /\ Unbalanced(token)
  /\ TokenDone
  /\ napply >= 2
  /\ exc = "ValueError"

\* C5: on a token whose every ')' is followed by a multiplier, the chain
\* accepts exactly when the recursive-descent reference accepts, and then
\* with the same total for every element.
C5_ChainAgreesWithReference ==
  (TokenDone /\ MultipliersPresent(token)) =>
     /\ Accepted <=> RefParse(token).ok
     /\ Accepted => DictEq(result, RefParse(token).dict)

\* C6: every returned mapping has table symbols as keys and strictly
\* positive quantities as values.
C6_PositiveRatios ==
  Accepted => \A k \in DOMAIN result : k \in SymbolSet /\ result[k].int > 0

\* C7: one application of the expander to a string whose innermost group is
\* a flat formula returns the text before '(' + the serialized group scaled
\* by the multiplier (1 when no literal follows ')') + the text after it.
C7_ExpanderSplices ==
  (napply >= 1 /\ HasFlatGroup(prev_formula)) =>
     /\ exc = "none"
     /\ formula = ExpectedExpansion(prev_formula)

\* C8: the string the driver returns holds neither '(' nor ')'.
C8_DriverOutputHasNoParens == (pc = "parse") => NoParens(formula)

\* C9: an application of the expander that changes the string removes
\* exactly one '(' and one ')', an application to a string without
\* parentheses returns it unchanged, and the driver makes at most one more
\* application than the token has ')'.
C9_ExpanderRemovesOnePair ==
  [][ (pc = "while" /\ formula # prev_formula) =>
        /\ napply' <= Count(token, ")") + 1
        /\ NoParens(formula) => (exc' = "none" /\ formula' = formula)
        /\ (exc' = "none" /\ formula' # formula) =>
              /\ Count(formula', "(") = Count(formula, "(") - 1
              /\ Count(formula', ")") = Count(formula, ")") - 1 ]_vars

\* the driver has reached its fixed point after expanding a group, with
\* as many applications as the bound allows
C9_Witness ==
  /\ pc = "parse"
  /\ napply >= 2
  /\ napply = Count(token, ")") + 1

\* C10: a mapping of table symbols to non-zero ratios, converted to a string
\* and parsed back, is reproduced.
C10_RoundTrip ==
  (pc = "done") => (exc = "none" /\ DictEq(result, ratio_dict))

====
